---- MODULE Spec2Model ----
(***************************************************************************)
(* The layer-voting tally engine ("ninja tortoise") of go-spacemesh:       *)
(* consensus/ninja_tortoise.go.  One UpdateTables call is one step.        *)
(*                                                                         *)
(* A *vec is modelled as a record [ref, val]: ref names the package-level  *)
(* vector the pointer aliases ("Support", "Against", "Abstain") or is      *)
(* "own" for a freshly allocated vector whose contents are val.  The       *)
(* contents of the three package-level vectors are state, because Negate   *)
(* and Multiplay write through their receiver.                             *)
(***************************************************************************)
EXTENDS Integers, Sequences, FiniteSets, TLC

\* ------------------------------------------------------------------ bounds
MaxLayer == 4
MaxWidth == 2
MaxLayerSize == 2
LongRun == 5
MaxIds == 3
MaxBlockId == 4
MaxCallers == 2
MaxRemote == 1
MaxSession == 2
MaxEligible == 2
MaxKeys == 2
MaxSenders == 2
MaxValue == 2
MaxProof == 2

\* ------------------------------------------------------- program constants
K == 5
Window == 100
GlobalThreshold == 1

\* An id no block is ever inserted with (ids are handed out from 1 upwards).
MissingId == (MaxLayer + 1) * (MaxWidth + 1) + 1

\* ------------------------------------------------------------ small helpers
Min2(a, b) == IF a < b THEN a ELSE b
Max2(a, b) == IF a > b THEN a ELSE b

Has(f, k) == k \in DOMAIN f

Put(f, k, v) == [x \in (DOMAIN f) \cup {k} |-> IF x = k THEN v ELSE f[x]]

RECURSIVE SeqSum(_)
SeqSum(q) == IF q = <<>> THEN 0 ELSE Head(q) + SeqSum(Tail(q))

\* ------------------------------------------------------------ vote algebra
Own(v) == [ref |-> "own", val |-> v]
Ref(name) == [ref |-> name, val |-> <<0, 0>>]
NilVec == [ref |-> "nil", val |-> <<0, 0>>]

\* the contents a pointer currently designates
Val(s, a) == IF a.ref = "own" THEN a.val ELSE s[a.ref]

\* func (a *vec) Add(v *vec) *vec
Add(s, a, v) ==
    IF a = NilVec THEN v
    ELSE IF v = NilVec THEN a
    ELSE Own(<<Val(s, a)[1] + Val(s, v)[1], Val(s, a)[2] + Val(s, v)[2]>>)

\* a[0] = a[0] * x; a[1] = a[1] * x through the pointer a (a is never "own"
\* at the call sites: the receivers are tVote entries and Against)
ScaleInPlace(s, a, x) ==
    IF a.ref = "own" THEN s
    ELSE [s EXCEPT ![a.ref] = <<s[a.ref][1] * x, s[a.ref][2] * x>>]

\* func (a *vec) Negate() *vec: the state after the call; the returned
\* pointer is NegateResult
Negate(s, a) == IF a = NilVec THEN s ELSE ScaleInPlace(s, a, 0 - 1)
NegateResult(a) == IF a = NilVec THEN Own(<<0, 0>>) ELSE a

\* func (a *vec) Multiplay(x int) *vec: returns its receiver
Multiplay(s, a, x) == ScaleInPlace(s, a, x)

\* -------------------------------------------------------- pattern identity
\* A uint32 is kept as two 16-bit limbs <<hi, lo>>.
RECURSIVE Xor8(_, _, _)
Xor8(a, b, n) ==
    IF n = 0 THEN 0
    ELSE (((a % 2) + (b % 2)) % 2) + 2 * Xor8(a \div 2, b \div 2, n - 1)

\* hash/fnv sum32.Write, one byte: hash *= 16777619 (0x01000193); hash ^= c
FnvStep(h, c) ==
    LET lo403 == h[2] * 403
        lo1 == lo403 % 65536
        hi1 == (h[1] * 403 + (lo403 \div 65536) + (h[2] % 256) * 256) % 65536
    IN  <<hi1, (lo1 - (lo1 % 256)) + Xor8(lo1 % 256, c, 8)>>

\* common.Uint32ToBytes: the four bytes of a uint32, most significant first
Uint32ToBytes(x) ==
    <<(x \div 16777216) % 256, (x \div 65536) % 256, (x \div 256) % 256, x % 256>>

RECURSIVE FnvWrite(_, _)
FnvWrite(h, bytes) ==
    IF bytes = <<>> THEN h ELSE FnvWrite(FnvStep(h, Head(bytes)), Tail(bytes))

\* fnv.New32(): offset basis 2166136261 = 0x811C9DC5
FnvNew32 == <<33052, 40389>>

RECURSIVE FnvIds(_, _)
FnvIds(h, bids) ==
    IF bids = <<>> THEN h
    ELSE FnvIds(FnvWrite(h, Uint32ToBytes(Head(bids))), Tail(bids))

\* sort.Slice(bids, less): an insertion sort, duplicates kept
RECURSIVE Insert(_, _)
Insert(x, q) ==
    IF q = <<>> THEN <<x>>
    ELSE IF x <= Head(q) THEN <<x>> \o q
    ELSE <<Head(q)>> \o Insert(x, Tail(q))

\* the slice left in the order it was given
Unsorted(q) == q

RECURSIVE SortIds(_)
SortIds(q) == IF q = <<>> THEN <<>> ELSE Insert(Head(q), SortIds(Tail(q)))

\* func getId(bids): the digest; the slice it was given is left sorted
getId(bids) == FnvIds(FnvNew32, SortIds(bids))

Pattern(id, layer) == [id |-> id, layer |-> layer]

\* a nil *votingPattern
NilPattern == [id |-> <<0, 0>>, layer |-> 0 - 1]

\* ------------------------------------------------------------------- state
VARIABLES
    ni,        \* the ninjaTortoise struct: its fields, by name
    Support,   \* contents of the package-level vector Support
    Against,   \* contents of the package-level vector Against
    Abstain,   \* contents of the package-level vector Abstain
    last,      \* the last UpdateTables call: arguments, outcome, write log
    hash,      \* a getId call on its own: the slice given and the digest
    pool,      \* the ConnectionPool, its goroutines and its callers
    oracle,    \* the OracleClient and the goroutines calling Eligible
    tracker    \* the ProposalTracker and the call it handled last

vars == <<ni, Support, Against, Abstain, last, hash, pool, oracle, tracker>>

\* the parts of the state that UpdateTables does not touch
apart == <<hash, pool, oracle, tracker>>

\* the state of the tortoise and of the package-level vectors
tortoise == <<ni, Support, Against, Abstain, last>>

\* what the pool, getId, the oracle client and the tracker each leave alone
notPool == <<tortoise, hash, oracle, tracker>>
notHash == <<tortoise, pool, oracle, tracker>>
notOracle == <<tortoise, hash, pool, tracker>>
notTracker == <<tortoise, hash, pool, oracle>>

NiFields ==
    {"LayerSize", "pBase", "blocks", "tEffective", "tCorrect", "layerBlocks",
     "tExplicit", "tGood", "tSupport", "tPattern", "tVote", "tTally",
     "tComplete", "tEffectiveToBlocks", "tPatSupport"}

EmptyMap == [x \in {} |-> 0]

\* nil-safe map reads: a missing key yields the zero value
Get(f, k, zero) == IF k \in DOMAIN f THEN f[k] ELSE zero
Get2(f, k1, k2, zero) ==
    IF k1 \in DOMAIN f THEN Get(f[k1], k2, zero) ELSE zero
Has2(f, k1, k2) == k1 \in DOMAIN f /\ k2 \in DOMAIN f[k1]
Put2(f, k1, k2, v) == Put(f, k1, Put(Get(f, k1, EmptyMap), k2, v))

\* The machine state threaded through one call: the struct's fields, the three
\* package-level vectors, the panic (if any) that ended the call, and a log of
\* the writes to tGood and pBase and of the tallies built.  err is "ok", or
\* the run-time panic: "unknown block" (processBlock), "nil block" (a method
\* call on the nil *ninjaBlock of an id that is not in ni.blocks), "nil
\* pattern" (dereference of a nil *votingPattern), "nil map" (assignment to
\* an entry of a nil map).
Machine(n, sup, ag, ab) ==
    [f \in NiFields \cup {"Support", "Against", "Abstain", "err", "goodWrites",
                          "pBaseWrites", "tallied", "minGood", "sUpdated", "flag"} |->
        CASE f \in NiFields -> n[f]
          [] f = "Support" -> sup
          [] f = "Against" -> ag
          [] f = "Abstain" -> ab
          [] f = "err" -> "ok"
          [] f = "minGood" -> n.pBase.layer
          [] OTHER -> <<>>]

Panic(s, what) == [s EXCEPT !.err = what]
Ok(s) == s.err = "ok"

\* ------------------------------------------------------------ processBlock
RECURSIVE VotedLayers(_, _)
VotedLayers(s, votes) ==
    IF votes = <<>> THEN {}
    ELSE {s.blocks[Head(votes)].layer} \cup VotedLayers(s, Tail(votes))

\* patterns[layer]: the vote edges whose target is in that layer, in order
Group(s, votes, layer) ==
    SelectSeq(votes, LAMBDA bid : s.blocks[bid].layer = layer)

\* The loop over the map `patterns` visits the layers in an arbitrary order;
\* every pass registers tPattern[vp], replaces nb.BlockVotes by a fresh map
\* holding that pass's entry only, and keeps the highest layer as effective.
\* lastLayer is the layer of the final pass.
RegisterPatterns(s, votes) ==
    LET layers == VotedLayers(s, votes)
        vp(l) == Pattern(getId(Group(s, votes, l)), l)
    IN  [p \in DOMAIN s.tPattern \cup {vp(l) : l \in layers} |->
            IF \E l \in layers : p = vp(l)
            THEN SortIds(Group(s, votes,
                               CHOOSE l \in layers : p = vp(l)))
            ELSE s.tPattern[p]]

Effective(s, votes) ==
    LET layers == VotedLayers(s, votes)
    IN  IF layers = {} THEN NilPattern
        ELSE LET top == CHOOSE l \in layers : \A m \in layers : m <= l
             IN  Pattern(getId(Group(s, votes, top)), top)

BlockVotesKept(s, votes, lastLayer) ==
    [l \in {lastLayer} |-> Pattern(getId(Group(s, votes, lastLayer)), lastLayer)]

\* the listing without the nil test
ListUnderAny(m, eff, id) == Put(m, eff, Append(Get(m, eff, <<>>), id))

\* if effective != nil { tEffectiveToBlocks[*effective] = append(v, b.ID()) }
ListUnder(m, eff, id) ==
    IF eff = NilPattern THEN m
    ELSE Put(m, eff, Append(Get(m, eff, <<>>), id))

processBlockWith(s, b, lastLayer) ==
    LET votes == b.VoteEdges
        eff == Effective(s, votes)
        nb == [id |-> b.id, layer |-> b.layer, ViewEdges |-> b.ViewEdges,
               VoteEdges |-> votes,
               BlockVotes |-> IF votes = <<>> THEN EmptyMap
                              ELSE BlockVotesKept(s, votes, lastLayer)]
    IN  [s EXCEPT
            !.tPattern = RegisterPatterns(s, votes),
            !.tEffective = Put(s.tEffective, b.id, eff),
            !.tEffectiveToBlocks = ListUnder(@, eff, b.id),
            !.blocks = Put(s.blocks, b.id, nb)]

\* every outcome of processBlock(b): one per order of the map iteration
processBlock(s, b) ==
    IF \E k \in 1..Len(b.VoteEdges) : b.VoteEdges[k] \notin DOMAIN s.blocks
    THEN {Panic(s, "unknown block")}
    ELSE IF b.VoteEdges = <<>> THEN {processBlockWith(s, b, 0)}
    ELSE {processBlockWith(s, b, l) : l \in VotedLayers(s, b.VoteEdges)}

\* ---------------------------------------------------------- forBlockInView
RECURSIVE PushChildren(_, _, _)
PushChildren(edges, set, queue) ==
    IF edges = <<>> THEN <<set, queue>>
    ELSE IF Head(edges) \in set THEN PushChildren(Tail(edges), set, queue)
    ELSE PushChildren(Tail(edges), set \cup {Head(edges)},
                      Append(queue, Head(edges)))

RECURSIVE Reverse(_)
Reverse(q) == IF q = <<>> THEN <<>> ELSE Append(Reverse(Tail(q)), Head(q))

\* The ids handed to the visitor, in order; missing is TRUE when the walk
\* popped an id that is not in ni.blocks (block.Layer() on the nil block).
RECURSIVE Walk(_, _, _, _, _)
Walk(s, queue, set, layer, acc) ==
    IF queue = <<>> THEN [visited |-> acc, missing |-> FALSE]
    ELSE LET a == Head(queue)
         IN  IF a \notin DOMAIN s.blocks
             THEN [visited |-> acc, missing |-> TRUE]
             ELSE LET block == s.blocks[a]
                      next == IF block.layer > layer
                              THEN PushChildren(block.ViewEdges, set, Tail(queue))
                              ELSE <<set, Tail(queue)>>
                  IN  Walk(s, next[2], next[1], layer, Append(acc, a))

forBlockInView(s, blocks, layer) == Walk(s, Reverse(blocks), {}, layer, <<>>)

\* layerCounter[l]: how many visits were to blocks of layer l
layerCounter(s, visited, l) ==
    Cardinality({k \in 1..Len(visited) : s.blocks[visited[k]].layer = l})

\* ---------------------------------------------------- findMinimalGoodLayer
Incr(f, k) == Put(f, k, Get(f, k, 0) + 1)

\* One pass of the loop over the new layer's blocks, for the scanned layer j:
\* an explicit vote (re)creates tExplicit[j] when this block has no entry in
\* it, and is counted by both increments; an implicit vote dereferences the
\* block's effective pattern.
VoteStep(s, id, j) ==
    LET block == s.blocks[id]
    IN  IF j \in DOMAIN block.BlockVotes
        THEN LET p == block.BlockVotes[j]
             IN  [s EXCEPT
                    !.tExplicit =
                        IF Has2(@, j, id) THEN Put2(@, j, id, p)
                        ELSE Put(@, j, [x \in {id} |-> p]),
                    !.tSupport = Incr(Incr(@, p), p),
                    !.sUpdated = @ \cup {p}]
        ELSE IF id \in DOMAIN s.tEffective
        THEN LET eff == s.tEffective[id]
             IN  IF eff = NilPattern THEN Panic(s, "nil pattern")
                 ELSE IF Has2(s.tPatSupport, eff, j)
                 THEN LET p == s.tPatSupport[eff][j]
                      IN  [s EXCEPT !.tSupport = Incr(@, p),
                                    !.sUpdated = @ \cup {p}]
                 ELSE s
        ELSE s

RECURSIVE VoteSteps(_, _, _)
VoteSteps(s, ids, j) ==
    IF ids = <<>> \/ ~Ok(s) THEN s
    ELSE VoteSteps(VoteStep(s, Head(ids), j), Tail(ids), j)

\* the threshold without the layer size
GoodThresholdNoSize(s, p, i) == 2 * Get(s.tSupport, p, 0) > i - p.layer

\* float64(tSupport[p]) > 0.5*float64(LayerID(LayerSize*uint32(i)) - p.Layer())
GoodThreshold(s, p, i) == 2 * Get(s.tSupport, p, 0) > s.LayerSize * i - p.layer

\* the body of `for p := range sUpdated`, for one p
GoodStep(s, p, i, j) ==
    IF (~Has(s.tGood, j) \/ s.tGood[j] # p) /\ GoodThreshold(s, p, i)
    THEN [s EXCEPT
            !.tGood = Put(@, p.layer, p),
            !.minGood = IF p.layer < i THEN p.layer ELSE @,
            !.goodWrites = Append(@, [p |-> p, i |-> i,
                                      support |-> Get(s.tSupport, p, 0)])]
    ELSE s

RECURSIVE GoodSteps(_, _, _, _)
GoodSteps(s, order, i, j) ==
    IF order = <<>> THEN s
    ELSE GoodSteps(GoodStep(s, Head(order), i, j), Tail(order), i, j)

\* every order in which a map iteration can deliver the keys of a set
RECURSIVE Perms(_)
Perms(S) ==
    IF S = {} THEN {<<>>}
    ELSE UNION {{<<x>> \o q : q \in Perms(S \ {x})} : x \in S}

\* the scan of layer j: every outcome, one per iteration order of sUpdated
ScanLayer(s, ids, i, j) ==
    LET voted == VoteSteps([s EXCEPT !.sUpdated = {}], ids, j)
    IN  IF ~Ok(voted) THEN {voted}
        ELSE {GoodSteps(voted, order, i, j) : order \in Perms(voted.sUpdated)}

RECURSIVE ScanLayers(_, _, _, _)
ScanLayers(S, ids, i, j) ==
    IF j >= i THEN S
    ELSE ScanLayers(UNION {IF Ok(s) THEN ScanLayer(s, ids, i, j) ELSE {s} : s \in S},
                    ids, i, j + 1)

\* the first scanned layer
ScanStart(s, i) ==
    IF i < Window THEN s.pBase.layer + 1
    ELSE Max2(s.pBase.layer + 1, i - Window)

\* every outcome of findMinimalGoodLayer(i, b); the returned layer is minGood
findMinimalGoodLayer(s, ids, i) ==
    ScanLayers({[s EXCEPT !.minGood = s.pBase.layer]}, ids, i, ScanStart(s, i))

\* ---------------------------------------------------------- addPatternVote
\* the closure returned by addPatternVote(p), applied to the visited block id
addPatternVote(s, p, id) ==
    LET exp == Get2(s.tExplicit, p.layer, id, NilPattern)
        v == IF exp # NilPattern /\ p = exp THEN Own(<<1, 0>>)
             ELSE IF exp # NilPattern THEN Own(<<0, 1>>)
             ELSE Own(<<0, 0>>)
    IN  [s EXCEPT !.tTally =
            Put2(@, p, id, Add(s, Get2(@, p, id, NilVec), v))]

RECURSIVE addPatternVotes(_, _, _)
addPatternVotes(s, p, visited) ==
    IF visited = <<>> THEN s
    ELSE addPatternVotes(addPatternVote(s, p, Head(visited)), p, Tail(visited))

\* ------------------------------------------------- updateCorrectionVectors
\* the pairs (b, x) of the two nested loops, in order
CorrectionPairs(s, p) ==
    LET bs == Get(s.tEffectiveToBlocks, p, <<>>)
        xs == Get(s.tPattern, p, <<>>)
    IN  [k \in 1..(Len(bs) * Len(xs)) |->
            <<bs[((k - 1) \div Len(xs)) + 1], xs[((k - 1) % Len(xs)) + 1]>>]

\* tCorrect[x][p] = tVote[p][x].Negate()
CorrectionStep(s, p, b, x) ==
    IF Has2(s.tExplicit, p.layer, b)
    THEN LET tv == Get2(s.tVote, p, x, NilVec)
         IN  [Negate(s, tv) EXCEPT
                !.tCorrect = Put2(@, x, p, NegateResult(tv))]
    ELSE s

RECURSIVE CorrectionSteps(_, _, _)
CorrectionSteps(s, p, pairs) ==
    IF pairs = <<>> THEN s
    ELSE CorrectionSteps(CorrectionStep(s, p, Head(pairs)[1], Head(pairs)[2]),
                         p, Tail(pairs))

updateCorrectionVectors(s, p) == CorrectionSteps(s, p, CorrectionPairs(s, p))

\* ------------------------------------------------------ updatePatternTally
\* the ids of layerBlocks[lo], ..., layerBlocks[hi], in loop order
RECURSIVE BlocksInLayers(_, _, _)
BlocksInLayers(s, lo, hi) ==
    IF lo > hi THEN <<>>
    ELSE Get(s.layerBlocks, lo, <<>>) \o BlocksInLayers(s, lo + 1, hi)

\* the visitor foo: the visited blocks whose effective pattern is g
EffectiveIs(s, visited, g) ==
    SelectSeq(visited, LAMBDA b : s.tEffective[b] = g)

RECURSIVE CorrSum(_, _, _)
CorrSum(s, bs, g) ==
    IF bs = <<>> THEN <<0, 0>>
    ELSE LET c == Get2(s.tCorrect, Head(bs), g, NilVec)
             rest == CorrSum(s, Tail(bs), g)
         IN  IF c = NilVec THEN rest
             ELSE <<Val(s, c)[1] + rest[1], Val(s, c)[2] + rest[2]>>

\* tally := tTally[p][b].Add(v.Multiplay(effCount).Add(corr)); tTally[p][b] = tally
FoldStep(s, g, p, b, effCount, corr) ==
    IF Has2(s.tVote, g, b)
    THEN LET v == s.tVote[g][b]
             s1 == Multiplay(s, v, effCount)
             tally == Add(s1, Get2(s1.tTally, p, b, NilVec),
                          Add(s1, v, Own(corr)))
         IN  IF ~Has(s1.tTally, p) THEN Panic(s1, "nil map")
             ELSE [s1 EXCEPT !.tTally[p] = Put(@, b, tally)]
    ELSE s

RECURSIVE FoldSteps(_, _, _, _, _, _)
FoldSteps(s, g, p, bs, effCount, corr) ==
    IF bs = <<>> \/ ~Ok(s) THEN s
    ELSE FoldSteps(FoldStep(s, g, p, Head(bs), effCount, corr),
                   g, p, Tail(bs), effCount, corr)

updatePatternTally(s, g, p) ==
    LET walk == forBlockInView(s, Get(s.tPattern, p, <<>>), g.layer)
        nilEff == \E k \in 1..Len(walk.visited) :
                      Get(s.tEffective, walk.visited[k], NilPattern) = NilPattern
        hit == EffectiveIs(s, walk.visited, g)
    IN  IF nilEff THEN Panic(s, "nil pattern")
        ELSE IF walk.missing THEN Panic(s, "nil block")
        ELSE FoldSteps(s, g, p, BlocksInLayers(s, s.pBase.layer, g.layer),
                       Len(hit), CorrSum(s, hit, g))

\* ------------------------------------------------------------ UpdateTables
\* for k, v := range tTally[*pBase] { tTally[p][k] = v }
SeedTally(s, p) ==
    LET base == Get(s.tTally, s.pBase, EmptyMap)
        old == Get(s.tTally, p, EmptyMap)
    IN  IF DOMAIN base = {} THEN s
        ELSE [s EXCEPT !.tTally =
                Put(@, p, [k \in DOMAIN old \cup DOMAIN base |->
                              IF k \in DOMAIN base THEN base[k] ELSE old[k]])]

\* for k := pBase.Layer(); k < j; k++ { if gK, found := tGood[k] ... }
RECURSIVE ReplayGood(_, _, _, _)
ReplayGood(s, p, k, j) ==
    IF k >= j \/ ~Ok(s) THEN s
    ELSE ReplayGood(IF Has(s.tGood, k) THEN updatePatternTally(s, s.tGood[k], p)
                    ELSE s,
                    p, k + 1, j)

\* func sumNodesInView(layerViewCounter, i, p)
RECURSIVE sumNodesInView(_, _, _, _)
sumNodesInView(s, visited, i, p) ==
    IF i >= p THEN 0
    ELSE layerCounter(s, visited, i) + sumNodesInView(s, visited, i + 1, p)

\* func (ni *ninjaTortoise) globalOpinion(p, x), given that tTally[p][x] exists
globalOpinion(s, p, x) ==
    LET v == Val(s, s.tTally[p][x])
        delta == p.layer - s.blocks[x].layer
        threshold == (GlobalThreshold * delta) * s.LayerSize
    IN  IF v[1] > threshold THEN Ref("Support")
        ELSE IF v[2] > threshold THEN Ref("Against")
        ELSE Ref("Abstain")

\* the body of `for _, bid := range layer`, for the block bid of layer i
OpinionStep(s, p, visited, i, bid) ==
    LET s1 == IF Has2(s.tTally, p, bid) THEN s
              ELSE LET m == Multiplay(s, Ref("Against"),
                                      sumNodesInView(s, visited, i, p.layer))
                   IN  IF ~Has(m.tTally, p) THEN Panic(m, "nil map")
                       ELSE [m EXCEPT !.tTally[p] = Put(@, bid, Ref("Against"))]
    IN  IF ~Ok(s1) THEN s1
        ELSE IF Has2(s1.tTally, p, bid)
        THEN [s1 EXCEPT !.tVote = Put2(@, p, bid, globalOpinion(s1, p, bid))]
        ELSE [s1 EXCEPT !.flag = FALSE]

RECURSIVE OpinionSteps(_, _, _, _, _)
OpinionSteps(s, p, visited, i, bids) ==
    IF bids = <<>> \/ ~Ok(s) THEN s
    ELSE OpinionSteps(OpinionStep(s, p, visited, i, Head(bids)),
                      p, visited, i, Tail(bids))

\* the blocks of a layer that were given a verdict: the list `bids`
Judged(s, p, layer) == SelectSeq(layer, LAMBDA bid : Has2(s.tVote, p, bid))

\* for i := pBase.Layer(); i <= j; i++ { ... tPatSupport[p][i] = ... }
RECURSIVE OpinionLayers(_, _, _, _, _)
OpinionLayers(s, p, visited, i, j) ==
    IF i > j \/ ~Ok(s) THEN s
    ELSE IF ~Has(s.layerBlocks, i) THEN OpinionLayers(s, p, visited, i + 1, j)
    ELSE LET s1 == OpinionSteps(s, p, visited, i, s.layerBlocks[i])
             s2 == IF ~Ok(s1) THEN s1
                   ELSE [s1 EXCEPT !.tPatSupport =
                           Put2(@, p, i,
                                Pattern(getId(Judged(s1, p, s.layerBlocks[i])), i))]
         IN  OpinionLayers(s2, p, visited, i + 1, j)

\* if _, found := tComplete[p]; flag && !found { tComplete[p] = ...; pBase = &p }
CompleteAndAdvance(s, p) ==
    IF s.flag /\ p \notin s.tComplete
    THEN [s EXCEPT !.tComplete = @ \cup {p},
                   !.pBase = p,
                   !.pBaseWrites = Append(@, p)]
    ELSE s

\* the body of `for j := l; j < i; j++` for a layer j that has a good pattern
TallyPattern(s, p, j) ==
    LET s1 == ReplayGood(SeedTally(s, p), p, s.pBase.layer, j)
        walk == forBlockInView(s1, Get(s1.tPattern, p, <<>>), s1.pBase.layer)
        s2 == addPatternVotes(s1, p, walk.visited)
        s3 == [s2 EXCEPT !.tallied =
                 Append(@, [p |-> p, base |-> s2.pBase.layer,
                            tally |-> [b \in DOMAIN Get(s2.tTally, p, EmptyMap) |->
                                          Val(s2, s2.tTally[p][b])]])]
        s4 == [updateCorrectionVectors(s3, p) EXCEPT !.flag = TRUE]
        s5 == OpinionLayers(s4, p, walk.visited, s4.pBase.layer, j)
    IN  IF ~Ok(s1) THEN s1
        ELSE IF walk.missing THEN Panic(s2, "nil block")
        ELSE IF ~Ok(s5) THEN s5
        ELSE CompleteAndAdvance(s5, p)

\* the completion step without the `!found` test
AdvanceAlways(s, p) ==
    IF s.flag
    THEN [s EXCEPT !.tComplete = @ \cup {p},
                   !.pBase = p,
                   !.pBaseWrites = Append(@, p)]
    ELSE s

TallyPatternAlways(s, p, j) ==
    LET s1 == ReplayGood(SeedTally(s, p), p, s.pBase.layer, j)
        walk == forBlockInView(s1, Get(s1.tPattern, p, <<>>), s1.pBase.layer)
        s2 == addPatternVotes(s1, p, walk.visited)
        s4 == [updateCorrectionVectors(s2, p) EXCEPT !.flag = TRUE]
        s5 == OpinionLayers(s4, p, walk.visited, s4.pBase.layer, j)
    IN  IF ~Ok(s1) THEN s1
        ELSE IF walk.missing THEN Panic(s2, "nil block")
        ELSE IF ~Ok(s5) THEN s5
        ELSE AdvanceAlways(s5, p)

RECURSIVE TallyLayersFrom(_, _, _)
TallyLayersFrom(s, j, i) ==
    IF j >= i \/ ~Ok(s) THEN s
    ELSE TallyLayersFrom(IF Has(s.tGood, j)
                         THEN TallyPatternAlways(s, s.tGood[j], j) ELSE s,
                         j + 1, i)

\* the tally loop started at layer 0, advancing pBase to every good pattern
TallyLayersFromGenesis(s, j, i) == TallyLayersFrom(s, 0, i)

RECURSIVE TallyLayers(_, _, _)
TallyLayers(s, j, i) ==
    IF j >= i \/ ~Ok(s) THEN s
    ELSE TallyLayers(IF Has(s.tGood, j) THEN TallyPattern(s, s.tGood[j], j) ELSE s,
                     j + 1, i)

\* b = append(b, processBlock(block)); layerBlocks[i] = append(layerBlocks[i], id)
RECURSIVE InsertBlocks(_, _, _)
InsertBlocks(S, B, i) ==
    IF B = <<>> THEN S
    ELSE InsertBlocks(
            UNION {IF ~Ok(s) THEN {s}
                   ELSE {IF ~Ok(r) THEN r
                         ELSE [r EXCEPT !.layerBlocks =
                                 Put(@, i, Append(Get(@, i, <<>>), Head(B).id))]
                         : r \in processBlock(s, Head(B))}
                   : s \in S},
            Tail(B), i)

BlockIds(B) == [k \in 1..Len(B) |-> B[k].id]

\* every outcome of UpdateTables(B, i) from the machine state s
UpdateTables(s, B, i) ==
    LET inserted == InsertBlocks({s}, B, i)
    IN  IF i = 0 THEN inserted
        ELSE UNION {IF ~Ok(s1) THEN {s1}
                    ELSE {IF ~Ok(s2) THEN s2 ELSE TallyLayers(s2, s2.minGood, i)
                          : s2 \in findMinimalGoodLayer(s1, BlockIds(B), i)}
                    : s1 \in inserted}

\* ------------------------------------------------------------ the feed
\* The blocks a layer feed can deliver as layer i.  A block's edges are built
\* from the two layers below it; ids are handed out in insertion order.
VotingTemplates == {"all", "first", "skip", "multi"}
LoneTemplates == {"none", "missing"}

VoteEdgesOf(t, prev, prev2) ==
    CASE t = "all" -> prev
      [] t = "first" -> IF prev = <<>> THEN <<>> ELSE <<prev[1]>>
      [] t = "second" -> IF prev = <<>> THEN <<>> ELSE <<prev[Len(prev)]>>
      [] t = "skip" -> prev2
      [] t = "multi" -> prev \o prev2
      [] t = "none" -> <<>>
      [] t = "missing" -> prev

ViewEdgesOf(t, prev) ==
    CASE t = "first" -> IF prev = <<>> THEN <<>> ELSE <<prev[1]>>
      [] t = "missing" -> Append(prev, MissingId)
      [] OTHER -> prev

Width == Min2(ni.LayerSize, MaxWidth)

\* A layer is 1..Width blocks that share a voting template, or a split layer
\* whose blocks vote for different blocks of the previous layer, or one block
\* that casts no vote, or one block with a view edge to a missing id.
Shapes(i) ==
    IF i = 0 THEN {[k \in 1..n |-> "none"] : n \in 1..Width}
    ELSE {[k \in 1..n |-> t] : n \in 1..Width, t \in VotingTemplates}
         \cup {<<t>> : t \in LoneTemplates}
         \cup (IF Width >= 2 THEN {<<"first", "second">>} ELSE {})

NextId == Cardinality(DOMAIN ni.blocks) + 1

Batch(shape, i) ==
    LET prev == Get(ni.layerBlocks, i - 1, <<>>)
        prev2 == Get(ni.layerBlocks, i - 2, <<>>)
    IN  [k \in 1..Len(shape) |->
            [id |-> NextId + k - 1, layer |-> i,
             ViewEdges |-> ViewEdgesOf(shape[k], prev),
             VoteEdges |-> VoteEdgesOf(shape[k], prev, prev2)]]

Batches(i) == {Batch(shape, i) : shape \in Shapes(i)}

\* a full layer whose blocks all vote for, and see, exactly the previous layer
Unanimous(B, i) ==
    /\ Len(B) = ni.LayerSize
    /\ i > 0 => \A k \in 1..Len(B) :
                   /\ B[k].VoteEdges = Get(ni.layerBlocks, i - 1, <<>>)
                   /\ B[k].ViewEdges = Get(ni.layerBlocks, i - 1, <<>>)

\* --------------------------------------------------------- connection pool
\* One remote public key.  A connection is its id and its session id.
NoConn == [id |-> 0, session |-> 0]
NoOne == <<"none", 0>>
Caller(c) == <<"caller", c>>
Dialer(c) == <<"dial", c>>
Loop == <<"loop", 0>>
Shut == <<"shutdown", 0>>
Callers == 1..MaxCallers

\* a goroutine inside handleNewConnection / handleDialResult: the connection
\* or error it carries and the channels it still has to send to
Idle(pc) == [pc |-> pc, conn |-> NoConn, err |-> FALSE, queue |-> <<>>]

\* func NewConnectionPool: empty maps, shutdown false, the event loop started
NewConnectionPool ==
    [connections |-> NoConn,      \* cp.connections[rPub]
     pending |-> <<>>,            \* cp.pending[rPub]: the callers' channels
     shutdown |-> FALSE,
     readers |-> {},              \* holders of connMutex.RLock
     writers |-> {},              \* goroutines blocked in connMutex.Lock
     pendMutex |-> NoOne,
     dialWait |-> 0,
     caller |-> [c \in Callers |-> [pc |-> "idle", conn |-> NoConn, err |-> "none"]],
     dial |-> [c \in Callers |-> Idle("none")],
     loop |-> Idle("select"),
     remotes |-> 0,               \* remote connection events so far
     shut |-> "idle",
     made |-> 0,                  \* connections created so far
     open |-> {},                 \* connections that can still report closing
     closed |-> {}]               \* connections on which Close was called

\* connMutex.RLock() succeeds: a blocked writer keeps new readers out
CanRLock == pool.writers = {}
\* connMutex.Lock() succeeds
CanLock == pool.readers = {}

\* GetConnection, lines 166-176: read lock, shutdown check, lookup
GetConnectionCall(c) ==
    /\ pool.caller[c].pc = "idle"
    /\ CanRLock
    /\ pool' =
         IF pool.shutdown
         THEN [pool EXCEPT !.caller[c] = [pc |-> "returned", conn |-> NoConn,
                                          err |-> "shut down"]]
         ELSE IF pool.connections # NoConn
         THEN [pool EXCEPT !.caller[c] = [pc |-> "returned",
                                          conn |-> pool.connections,
                                          err |-> "none"]]
         ELSE [pool EXCEPT !.readers = @ \cup {c},
                           !.caller[c].pc = "pendLock"]
    /\ UNCHANGED notPool

\* GetConnection, lines 180-197: register the channel, start the dial
\* goroutine when nobody waits for this key yet
Register(c) ==
    /\ pool.caller[c].pc = "pendLock"
    /\ pool.pendMutex = NoOne
    /\ pool' = [pool EXCEPT !.pending = Append(@, c),
                            !.dial[c].pc = IF pool.pending = <<>> THEN "spawned"
                                           ELSE @,
                            !.caller[c].pc = "registered"]
    /\ UNCHANGED notPool

\* GetConnection, line 198, and GetConnectionIfExists, line 234; the caller
\* then blocks in `<-pendChan`
RUnlock(c) ==
    /\ pool.caller[c].pc = "registered"
    /\ pool' = [pool EXCEPT !.readers = @ \ {c}, !.caller[c].pc = "waiting"]
    /\ UNCHANGED notPool

\* GetConnectionIfExists, lines 211-220: read lock, shutdown check, lookup
GetConnectionIfExistsCall(c) ==
    /\ pool.caller[c].pc = "idle"
    /\ CanRLock
    /\ pool' =
         IF pool.shutdown
         THEN [pool EXCEPT !.caller[c] = [pc |-> "returned", conn |-> NoConn,
                                          err |-> "shut down"]]
         ELSE IF pool.connections # NoConn
         THEN [pool EXCEPT !.caller[c] = [pc |-> "returned",
                                          conn |-> pool.connections,
                                          err |-> "none"]]
         ELSE [pool EXCEPT !.readers = @ \cup {c},
                           !.caller[c].pc = "pendLockIfExists"]
    /\ UNCHANGED notPool

\* GetConnectionIfExists, lines 224-233: with nobody waiting for the key it
\* unlocks pendMutex and returns the error (lines 227-228, connMutex is not
\* touched); otherwise it registers its channel and goes on to line 234
RegisterIfExists(c) ==
    /\ pool.caller[c].pc = "pendLockIfExists"
    /\ pool.pendMutex = NoOne
    /\ pool' =
         IF pool.pending = <<>>
         THEN [pool EXCEPT !.caller[c] = [pc |-> "returned", conn |-> NoConn,
                                          err |-> "no connection in cpool"]]
         ELSE [pool EXCEPT !.pending = Append(@, c),
                           !.caller[c].pc = "registered"]
    /\ UNCHANGED notPool

\* the dial goroutine, line 187: cp.dialWait.Add(1), then Dial is called
DialStart(c) ==
    /\ pool.dial[c].pc = "spawned"
    /\ pool' = [pool EXCEPT !.dialWait = @ + 1, !.dial[c].pc = "dialing"]
    /\ UNCHANGED notPool

\* line 188-190: Dial returns an error; handleDialResult is called
DialFails(c) ==
    /\ pool.dial[c].pc = "dialing"
    /\ pool' = [pool EXCEPT !.dial[c].pc = "hdr", !.dial[c].err = TRUE]
    /\ UNCHANGED notPool

\* line 188-192: Dial returns a connection; handleNewConnection calls Lock
DialSucceeds(c) ==
    /\ pool.dial[c].pc = "dialing"
    /\ \E s \in 1..MaxSession :
         LET conn == [id |-> pool.made + 1, session |-> s]
         IN  pool' = [pool EXCEPT !.dial[c].pc = "hnc", !.dial[c].conn = conn,
                                  !.made = @ + 1, !.open = @ \cup {conn},
                                  !.writers = @ \cup {Dialer(c)}]
    /\ UNCHANGED notPool

\* func compareConnections: bytes.Compare of the session ids
compareConnections(conn1, conn2) ==
    IF conn1.session < conn2.session THEN 0 - 1
    ELSE IF conn1.session = conn2.session THEN 0 ELSE 1

\* handleNewConnection, lines 106-145, run by goroutine g (its record is w):
\* the pool after the locked section, and whether a connection was there
handleNewConnection(P, g, w) ==
    LET cur == P.connections
        res == compareConnections(cur, w.conn)
        Q == [P EXCEPT !.writers = @ \ {g}]
    IN  IF cur # NoConn
        THEN IF res <= 0
             THEN [Q EXCEPT !.connections = w.conn, !.closed = @ \cup {cur}]
             ELSE [Q EXCEPT !.closed = @ \cup {w.conn}]
        ELSE [Q EXCEPT !.connections = w.conn]

\* handleDialResult, lines 93-94: take pendMutex and start sending
handleDialResult(P, g) == [P EXCEPT !.pendMutex = g]

\* handleDialResult, lines 97-98
Delivered(P) == [P EXCEPT !.pending = <<>>, !.pendMutex = NoOne]

\* the result a goroutine sends: dialResult{conn, err}
Receive(P, c, w) ==
    [P EXCEPT !.caller[c] = [pc |-> "returned",
                             conn |-> IF w.err THEN NoConn ELSE w.conn,
                             err |-> IF w.err THEN "dial" ELSE "none"]]

\* the dial goroutine runs the locked section of handleNewConnection
DialNewConnection(c) ==
    /\ pool.dial[c].pc = "hnc"
    /\ CanLock
    /\ LET P == handleNewConnection(pool, Dialer(c), pool.dial[c])
       IN  pool' = [P EXCEPT !.dial[c].pc =
                        IF pool.connections # NoConn THEN "done" ELSE "hdr"]
    /\ UNCHANGED notPool

\* the dial goroutine enters handleDialResult
DialResultLock(c) ==
    /\ pool.dial[c].pc = "hdr"
    /\ pool.pendMutex = NoOne
    /\ LET P == handleDialResult(pool, Dialer(c))
       IN  pool' = IF pool.pending = <<>>
                   THEN [Delivered(P) EXCEPT !.dial[c].pc = "done"]
                   ELSE [P EXCEPT !.dial[c].pc = "send",
                                  !.dial[c].queue = pool.pending]
    /\ UNCHANGED notPool

\* `p <- result` on an unbuffered channel: the receiver must be waiting
DialResultSend(c) ==
    /\ pool.dial[c].pc = "send"
    /\ LET w == pool.dial[c]
           to == Head(w.queue)
       IN  /\ pool.caller[to].pc = "waiting"
           /\ LET P == Receive(pool, to, w)
              IN  pool' = IF Tail(w.queue) = <<>>
                          THEN [Delivered(P) EXCEPT !.dial[c].pc = "done",
                                                    !.dial[c].queue = <<>>]
                          ELSE [P EXCEPT !.dial[c].queue = Tail(w.queue)]
    /\ UNCHANGED notPool

\* line 194: cp.dialWait.Done()
DialDone(c) ==
    /\ pool.dial[c].pc = "done"
    /\ pool' = [pool EXCEPT !.dialWait = @ - 1, !.dial[c].pc = "finished"]
    /\ UNCHANGED notPool

\* beginEventProcessing, line 245: a remote connection event is received and
\* handleNewConnection calls Lock
RemoteConnection ==
    /\ pool.loop.pc = "select"
    /\ pool.remotes < MaxRemote
    /\ \E s \in 1..MaxSession :
         LET conn == [id |-> pool.made + 1, session |-> s]
         IN  pool' = [pool EXCEPT !.loop.pc = "hnc", !.loop.conn = conn,
                                  !.remotes = @ + 1,
                                  !.made = @ + 1, !.open = @ \cup {conn},
                                  !.writers = @ \cup {Loop}]
    /\ UNCHANGED notPool

LoopNewConnection ==
    /\ pool.loop.pc = "hnc"
    /\ CanLock
    /\ LET P == handleNewConnection(pool, Loop, pool.loop)
       IN  pool' = [P EXCEPT !.loop.pc =
                        IF pool.connections # NoConn THEN "select" ELSE "hdr"]
    /\ UNCHANGED notPool

LoopResultLock ==
    /\ pool.loop.pc = "hdr"
    /\ pool.pendMutex = NoOne
    /\ LET P == handleDialResult(pool, Loop)
       IN  pool' = IF pool.pending = <<>>
                   THEN [Delivered(P) EXCEPT !.loop.pc = "select"]
                   ELSE [P EXCEPT !.loop.pc = "send",
                                  !.loop.queue = pool.pending]
    /\ UNCHANGED notPool

LoopResultSend ==
    /\ pool.loop.pc = "send"
    /\ LET w == pool.loop
           to == Head(w.queue)
       IN  /\ pool.caller[to].pc = "waiting"
           /\ LET P == Receive(pool, to, w)
              IN  pool' = IF Tail(w.queue) = <<>>
                          THEN [Delivered(P) EXCEPT !.loop.pc = "select",
                                                    !.loop.queue = <<>>]
                          ELSE [P EXCEPT !.loop.queue = Tail(w.queue)]
    /\ UNCHANGED notPool

\* line 249: a closing event is received and handleClosedConnection calls Lock
ClosingConnection ==
    /\ pool.loop.pc = "select"
    /\ \E conn \in pool.open :
         pool' = [pool EXCEPT !.loop.pc = "hcc", !.loop.conn = conn,
                              !.open = @ \ {conn},
                              !.writers = @ \cup {Loop}]
    /\ UNCHANGED notPool

\* func handleClosedConnection, lines 154-161
handleClosedConnection(P, conn) ==
    [P EXCEPT !.connections =
        IF @ # NoConn /\ @.id = conn.id THEN NoConn ELSE @]

LoopClosedConnection ==
    /\ pool.loop.pc = "hcc"
    /\ CanLock
    /\ pool' = [handleClosedConnection(pool, pool.loop.conn)
                  EXCEPT !.writers = @ \ {Loop}, !.loop.pc = "select"]
    /\ UNCHANGED notPool

\* Shutdown, line 68: cp.connMutex.Lock() is called
ShutdownCall ==
    /\ pool.shut = "idle"
    /\ pool' = [pool EXCEPT !.shut = "lock", !.writers = @ \cup {Shut}]
    /\ UNCHANGED notPool

\* Shutdown, lines 69-75
ShutdownFlag ==
    /\ pool.shut = "lock"
    /\ CanLock
    /\ pool' = [pool EXCEPT !.shut = IF pool.shutdown THEN "returned" ELSE "wait",
                            !.shutdown = TRUE,
                            !.writers = @ \ {Shut}]
    /\ UNCHANGED notPool

\* Shutdown, line 77: cp.dialWait.Wait() returns when the counter is zero
ShutdownWait ==
    /\ pool.shut = "wait"
    /\ pool.dialWait = 0
    /\ pool' = [pool EXCEPT !.shut = "teardown"]
    /\ UNCHANGED notPool

\* line 78 and line 252: the teardown message passes, the loop ends, and
\* closeConnections calls Lock
Teardown ==
    /\ pool.shut = "teardown"
    /\ pool.loop.pc = "select"
    /\ pool' = [pool EXCEPT !.shut = "close", !.loop.pc = "stopped",
                            !.writers = @ \cup {Shut}]
    /\ UNCHANGED notPool

\* func closeConnections, lines 84-89, after which Shutdown returns
closeConnections ==
    /\ pool.shut = "close"
    /\ CanLock
    /\ pool' = [pool EXCEPT !.shut = "returned",
                            !.closed = IF pool.connections # NoConn
                                       THEN @ \cup {pool.connections} ELSE @,
                            !.writers = @ \ {Shut}]
    /\ UNCHANGED notPool

\* ------------------------------------------------------------ oracle client
\* One instance id.  Mutexes hold the number of the goroutine that locked
\* them, 0 when unlocked.
Askers == 1..MaxEligible
PubKeys == 1..MaxKeys

\* func NewOracleClientWithWorldID: both maps empty
NewOracleClient ==
    [eMtx |-> 0,
     instMtx |-> 0,                \* *oc.instMtx[id]
     known |-> FALSE,              \* id is a key of oc.eligibilityMap
     eligibilityMap |-> {},        \* oc.eligibilityMap[id]
     requests |-> 0,               \* validatemap requests the server received
     call |-> [c \in Askers |-> [pc |-> "idle", pubKey |-> 0, valid |-> FALSE]]]

\* --------------------------------------------------------- proposal tracker
\* A nil *pb.HareMessage.  A message is its sender's key, the list of values
\* it proposes and its role proof; keys and proofs are compared as bytes.
NoMsg == [PubKey |-> 0, Values |-> <<>>, RoleProof |-> 0]

ValueLists ==
    {<<>>} \cup {<<v>> : v \in 1..MaxValue}
           \cup {<<v, w>> : v \in 1..MaxValue, w \in 1..MaxValue}

Messages ==
    [PubKey : 1..MaxSenders, Values : ValueLists, RoleProof : 1..MaxProof]

\* func NewSet: the set of the listed values
NewSet(values) == {values[k] : k \in 1..Len(values)}

\* func NewProposalTracker: no proposal, no conflict
NewProposalTracker ==
    [proposal |-> NoMsg, isConflicting |-> FALSE,
     op |-> "NewProposalTracker", msg |-> NoMsg]    \* the call handled last

\* bytes.Equal(pt.proposal.PubKey, msg.PubKey) && !s.Equals(g)
Equivocates(pt, msg) ==
    /\ pt.proposal.PubKey = msg.PubKey
    /\ NewSet(msg.Values) # NewSet(pt.proposal.Values)

\* the comparison with the equal proofs counted as higher
HigherOrEqual(pt, msg) == msg.RoleProof >= pt.proposal.RoleProof

\* bytes.Compare(msg.Message.RoleProof, pt.proposal.Message.RoleProof) > 0
Higher(pt, msg) == msg.RoleProof > pt.proposal.RoleProof

\* func (pt *ProposalTracker) OnProposal
OnProposal(msg) ==
    /\ tracker' =
         LET pt == [tracker EXCEPT !.op = "OnProposal", !.msg = msg]
         IN  IF tracker.proposal = NoMsg THEN [pt EXCEPT !.proposal = msg]
             ELSE IF tracker.proposal.PubKey = msg.PubKey
             THEN IF Equivocates(tracker, msg)
                  THEN [pt EXCEPT !.isConflicting = TRUE]
                  ELSE pt
             ELSE IF Higher(tracker, msg) THEN pt
             ELSE [pt EXCEPT !.proposal = msg, !.isConflicting = FALSE]
    /\ UNCHANGED notTracker

\* func (pt *ProposalTracker) OnLateProposal
OnLateProposal(msg) ==
    /\ tracker' =
         LET pt == [tracker EXCEPT !.op = "OnLateProposal", !.msg = msg]
         IN  IF tracker.proposal = NoMsg THEN pt
             ELSE [pt EXCEPT !.isConflicting =
                      \/ @
                      \/ Equivocates(tracker, msg)
                      \/ msg.RoleProof < tracker.proposal.RoleProof]
    /\ UNCHANGED notTracker

\* func (pt *ProposalTracker) IsConflicting
IsConflicting(pt) == pt.isConflicting

\* a nil *Set
NilSet == [nil |-> TRUE, values |-> {}]

\* func (pt *ProposalTracker) ProposedSet
ProposedSet(pt) ==
    IF pt.proposal = NoMsg THEN NilSet
    ELSE IF pt.isConflicting THEN NilSet
    ELSE [nil |-> FALSE, values |-> NewSet(pt.proposal.Values)]

\* ------------------------------------------------------------ Init and Next
Sentinel == Pattern(<<0, 0>>, 0)

Tortoise(size) ==
    /\ ni = [f \in NiFields |->
               CASE f = "LayerSize" -> size
                 [] f = "pBase" -> Sentinel
                 [] f = "tComplete" -> {}
                 [] OTHER -> EmptyMap]
    /\ Support = <<1, 0>>
    /\ Against = <<0, 1>>
    /\ Abstain = <<0, 0>>
    /\ last = [i |-> 0 - 1, B |-> <<>>, err |-> "ok", goodWrites |-> <<>>,
               pBaseWrites |-> <<>>, tallied |-> <<>>, minGood |-> 0,
               unanimous |-> TRUE]

\* no getId call of its own is under way
HashIdle == [bids |-> <<>>, at |-> "idle", id |-> <<0, 0>>]

Init ==
    /\ \E size \in 1..MaxLayerSize : Tortoise(size)
    /\ hash = HashIdle
    /\ pool = NewConnectionPool
    /\ oracle = NewOracleClient
    /\ tracker = NewProposalTracker

\* One call UpdateTables(B, i) for the next layer of the feed.  A panic ends
\* the process: the tables stay as the panic left them and no call follows.
UpdateTablesOf(B) ==
    \E r \in UpdateTables(Machine(ni, Support, Against, Abstain),
                          B, last.i + 1) :
        /\ ni' = [f \in NiFields |-> r[f]]
        /\ Support' = r.Support
        /\ Against' = r.Against
        /\ Abstain' = r.Abstain
        /\ last' = [i |-> last.i + 1, B |-> B, err |-> r.err,
                    goodWrites |-> r.goodWrites,
                    pBaseWrites |-> r.pBaseWrites,
                    tallied |-> r.tallied,
                    minGood |-> r.minGood,
                    unanimous |-> last.unanimous /\ Unanimous(B, last.i + 1)]
        /\ UNCHANGED apart

UpdateTablesCall ==
    /\ last.err = "ok"
    /\ last.i < MaxLayer
    /\ \E B \in Batches(last.i + 1) : UpdateTablesOf(B)

Next == UpdateTablesCall

Spec == Init /\ [][Next]_vars

\* Full layers only: every layer holds LayerSize blocks that vote alike.  The
\* caller keeps delivering layers: as long as a call can be made, one is made.
FullShapes(i) ==
    IF i = 0 THEN {[k \in 1..Width |-> "none"]}
    ELSE {[k \in 1..Width |-> t] : t \in VotingTemplates}

FullBatches(i) == {Batch(shape, i) : shape \in FullShapes(i)}

UpdateTablesFullCall ==
    /\ last.err = "ok"
    /\ last.i < MaxLayer
    /\ \E B \in FullBatches(last.i + 1) : UpdateTablesOf(B)

FullNext == UpdateTablesFullCall

FairSpec == Init /\ [][FullNext]_vars /\ WF_vars(Next)

\* A longer run over layers whose blocks all vote alike, for one block of the
\* previous layer or for the layer before it.
LongShapes(i) ==
    IF i = 0 THEN {[k \in 1..n |-> "none"] : n \in 1..Width}
    ELSE {[k \in 1..n |-> t] : n \in 1..Width, t \in {"first", "skip"}}

LongBatches(i) == {Batch(shape, i) : shape \in LongShapes(i)}

UpdateTablesLongCall ==
    /\ last.err = "ok"
    /\ last.i < LongRun
    /\ \E B \in LongBatches(last.i + 1) : UpdateTablesOf(B)

LongNext == UpdateTablesLongCall

LongSpec == Init /\ [][LongNext]_vars

\* A feed whose blocks may also vote three layers down or name a block twice,
\* and whose layers may mix voting templates, so that one layer can vote on
\* two earlier layers.
DeepTemplates == {"all", "skip", "deep"}

DeepVoteEdgesOf(t, i) ==
    IF t = "deep" THEN Get(ni.layerBlocks, i - 3, <<>>)
    ELSE IF t = "twice"
    THEN LET prev == Get(ni.layerBlocks, i - 1, <<>>)
         IN  IF prev = <<>> THEN <<>> ELSE <<prev[1], prev[1]>>
    ELSE VoteEdgesOf(t, Get(ni.layerBlocks, i - 1, <<>>),
                        Get(ni.layerBlocks, i - 2, <<>>))

DeepShapes(i) ==
    IF i = 0 THEN {[k \in 1..n |-> "none"] : n \in 1..Width}
    ELSE UNION {[1..n -> DeepTemplates] : n \in 1..Width}
         \cup {<<"twice">>}

DeepBatch(shape, i) ==
    [k \in 1..Len(shape) |->
        [id |-> NextId + k - 1, layer |-> i,
         ViewEdges |-> Get(ni.layerBlocks, i - 1, <<>>),
         VoteEdges |-> DeepVoteEdgesOf(shape[k], i)]]

DeepBatches(i) == {DeepBatch(shape, i) : shape \in DeepShapes(i)}

UpdateTablesDeepCall ==
    /\ last.err = "ok"
    /\ last.i < MaxLayer
    /\ \E B \in DeepBatches(last.i + 1) : UpdateTablesOf(B)

DeepNext == UpdateTablesDeepCall

DeepSpec == Init /\ [][DeepNext]_vars

\* ---------------------------------------------------- the pool on its own
PoolInit ==
    /\ Tortoise(1)
    /\ hash = HashIdle
    /\ pool = NewConnectionPool
    /\ oracle = NewOracleClient
    /\ tracker = NewProposalTracker

PoolNext ==
    \/ \E c \in Callers :
          \/ GetConnectionCall(c)
          \/ Register(c)
          \/ GetConnectionIfExistsCall(c)
          \/ RegisterIfExists(c)
          \/ RUnlock(c)
          \/ DialStart(c)
          \/ DialFails(c)
          \/ DialSucceeds(c)
          \/ DialNewConnection(c)
          \/ DialResultLock(c)
          \/ DialResultSend(c)
          \/ DialDone(c)
    \/ RemoteConnection
    \/ LoopNewConnection
    \/ LoopResultLock
    \/ LoopResultSend
    \/ ClosingConnection
    \/ LoopClosedConnection
    \/ ShutdownCall
    \/ ShutdownFlag
    \/ ShutdownWait
    \/ Teardown
    \/ closeConnections

PoolSpec == PoolInit /\ [][PoolNext]_vars

\* ------------------------------------------------------------ getId alone
\* the slices of at most MaxIds block ids out of 1..MaxBlockId
RECURSIVE Slices(_)
Slices(n) ==
    IF n = 0 THEN {<<>>}
    ELSE Slices(n - 1)
         \cup {Append(q, x) : q \in {r \in Slices(n - 1) : Len(r) = n - 1},
                              x \in 1..MaxBlockId}

HashInit ==
    /\ Tortoise(1)
    /\ pool = NewConnectionPool
    /\ oracle = NewOracleClient
    /\ tracker = NewProposalTracker
    /\ \E q \in Slices(MaxIds) : hash = [bids |-> q, at |-> "called", id |-> <<0, 0>>]

getIdCall ==
    /\ hash.at = "called"
    /\ hash' = [hash EXCEPT !.at = "returned", !.id = getId(hash.bids)]
    /\ UNCHANGED notHash

HashNext == getIdCall

HashSpec == HashInit /\ [][HashNext]_vars

\* -------------------------------------------------- the oracle on its own
OracleInit ==
    /\ Tortoise(1)
    /\ hash = HashIdle
    /\ pool = NewConnectionPool
    /\ oracle = NewOracleClient
    /\ tracker = NewProposalTracker

\* Eligible, lines 156-160: oc.eMtx.Lock(), the per-instance mutex is made
EligibleCall(c) ==
    /\ oracle.call[c].pc = "idle"
    /\ oracle.eMtx = 0
    /\ \E key \in PubKeys :
         oracle' = [oracle EXCEPT !.eMtx = c,
                                  !.call[c].pc = "instLock",
                                  !.call[c].pubKey = key]
    /\ UNCHANGED notOracle

\* lines 161-169: oc.instMtx[id].Lock(), still holding eMtx; a known list is
\* answered locally, otherwise eMtx is released before the request
InstanceLock(c) ==
    /\ oracle.call[c].pc = "instLock"
    /\ oracle.instMtx = 0
    /\ oracle' =
         IF oracle.known
         THEN [oracle EXCEPT !.eMtx = 0,
                             !.call[c].pc = "returned",
                             !.call[c].valid =
                                 oracle.call[c].pubKey \in oracle.eligibilityMap]
         ELSE [oracle EXCEPT !.eMtx = 0, !.instMtx = c,
                             !.call[c].pc = "request"]
    /\ UNCHANGED notOracle

\* lines 171-187: the validatemap request and the server's list of ids
ValidateRequest(c) ==
    /\ oracle.call[c].pc = "request"
    /\ \E ids \in SUBSET PubKeys :
         oracle' = [oracle EXCEPT !.requests = @ + 1,
                                  !.call[c].pc = "store",
                                  !.call[c].valid = oracle.call[c].pubKey \in ids,
                                  !.eligibilityMap = ids]
    /\ UNCHANGED notOracle

\* lines 189-194: oc.eMtx.Lock(), the list is stored, both mutexes released
StoreList(c) ==
    /\ oracle.call[c].pc = "store"
    /\ oracle.eMtx = 0
    /\ oracle' = [oracle EXCEPT !.known = TRUE, !.instMtx = 0,
                                !.call[c].pc = "returned"]
    /\ UNCHANGED notOracle

OracleNext ==
    \E c \in Askers :
        \/ EligibleCall(c)
        \/ InstanceLock(c)
        \/ ValidateRequest(c)
        \/ StoreList(c)

\* every goroutine that can take a step eventually takes one
OracleSpec == OracleInit /\ [][OracleNext]_vars /\ WF_vars(OracleNext)

\* ------------------------------------------------- the tracker on its own
TrackerInit ==
    /\ Tortoise(1)
    /\ hash = HashIdle
    /\ pool = NewConnectionPool
    /\ oracle = NewOracleClient
    /\ tracker = NewProposalTracker

TrackerNext ==
    \E msg \in Messages : OnProposal(msg) \/ OnLateProposal(msg)

TrackerSpec == TrackerInit /\ [][TrackerNext]_vars


\* ================================================================ properties
tVote == ni.tVote
tGood == ni.tGood
tSupport == ni.tSupport
tComplete == ni.tComplete
pBase == ni.pBase

Verdict(p, b) == Get2(tVote, p, b, NilVec).ref

Vectors == [Support |-> Support, Against |-> Against, Abstain |-> Abstain]

\* ---- C1: pBase.Layer after an UpdateTables call is >= pBase.Layer before it,
\* and the successive assignments to pBase inside one call never go down.
RECURSIVE NonDecreasingFrom(_, _)
NonDecreasingFrom(lo, writes) ==
    \/ writes = <<>>
    \/ /\ Head(writes).layer >= lo
       /\ NonDecreasingFrom(Head(writes).layer, Tail(writes))

C1_FrontierMonotone ==
    [][/\ ni'.pBase.layer >= ni.pBase.layer
       /\ NonDecreasingFrom(ni.pBase.layer, last'.pBaseWrites)]_vars

\* pBase has been advanced by two calls, the last one just now
C1_Witness == Cardinality(tComplete) >= 2 /\ last.pBaseWrites # <<>>

\* ---- C2: a pattern is in tComplete (and becomes pBase) only if every block
\* it gave a verdict to got Support or Against, never Abstain.
C2_CompleteMeansDecided ==
    \A p \in tComplete :
        \A b \in DOMAIN Get(tVote, p, EmptyMap) :
            Verdict(p, b) \in {"Support", "Against"}

\* ---- C3: the outcome of a call does not depend on the order in which the
\* maps are iterated: every outcome the call can have from the same state and
\* the same (blocks, layer) has the same pBase and the same tVote[pBase].
C3_Deterministic ==
    [][\A r \in UpdateTables(Machine(ni, Support, Against, Abstain),
                             last'.B, last'.i) :
          /\ r.pBase = ni'.pBase
          /\ Get(r.tVote, r.pBase, EmptyMap) = Get(ni'.tVote, ni'.pBase, EmptyMap)]_vars

\* ---- C4: a call whose traversal meets a view edge to an id that was never
\* inserted leaves every table as it was before the call.
Tables(n) ==
    [f \in {"blocks", "layerBlocks", "tEffective", "tEffectiveToBlocks",
            "tExplicit", "tSupport", "tGood", "tTally", "tVote", "tPatSupport",
            "tComplete", "pBase"} |-> n[f]]

C4_MissingAncestorLeavesTables ==
    [][last'.err = "nil block" => Tables(ni') = Tables(ni)]_vars

\* ---- C5: the shared vectors keep their contents, and every recorded verdict
\* is one of the three opinion vectors.
C5_SharedVectorsIntact ==
    /\ Support = <<1, 0>>
    /\ Against = <<0, 1>>
    /\ Abstain = <<0, 0>>
    /\ \A p \in DOMAIN tVote : \A b \in DOMAIN tVote[p] :
          Val(Vectors, tVote[p][b]) \in {<<1, 0>>, <<0, 1>>, <<0, 0>>}

C7_GoodPatternUnique ==
    \A L \in DOMAIN tGood :
        \A p \in DOMAIN tSupport :
            (p.layer = L /\ p # tGood[L]) =>
                ~(2 * tSupport[p] > ni.LayerSize * (last.i - L))

\* ---- C8: when every layer is full and every block votes for and sees
\* exactly the previous layer, the engine eventually has pBase above layer 0
\* and the verdict Support of pBase on every block of layer 0.
C8_Decided ==
    /\ pBase.layer > 0
    /\ \A k \in 1..Len(Get(ni.layerBlocks, 0, <<>>)) :
          Verdict(pBase, ni.layerBlocks[0][k]) = "Support"

Opposite(x, y) ==
    \/ x = "Support" /\ y = "Against"
    \/ x = "Against" /\ y = "Support"

Decided == {pb \in {<<p, b>> : p \in tComplete, b \in DOMAIN ni.blocks} :
               Verdict(pb[1], pb[2]) \in {"Support", "Against"}}

C9_OpinionMonotone ==
    [][\A pb \in Decided :
          /\ Get2(ni'.tVote, pb[1], pb[2], NilVec).ref = Verdict(pb[1], pb[2])
          /\ Vectors'[Verdict(pb[1], pb[2])] = Vectors[Verdict(pb[1], pb[2])]
          /\ \A q \in ni'.tComplete :
                q.layer > pb[1].layer =>
                    ~Opposite(Get2(ni'.tVote, q, pb[2], NilVec).ref,
                              Verdict(pb[1], pb[2]))]_vars

\* ---- C10: the tally of a good pattern p built by UpdateTables equals, on
\* every block b at or above the base layer, the sum over the blocks v of p's
\* view of the vote of v on b.
VoteOn(v, b) ==
    LET edges == ni.blocks[v].VoteEdges
        eff == Get(ni.tEffective, v, NilPattern)
    IN  IF \E k \in 1..Len(edges) : edges[k] = b THEN <<1, 0>>
        ELSE IF \E k \in 1..Len(edges) :
                    ni.blocks[edges[k]].layer = ni.blocks[b].layer THEN <<0, 1>>
        ELSE IF eff # NilPattern /\ Has2(tVote, eff, b)
        THEN Vectors[tVote[eff][b].ref]
        ELSE <<0, 0>>

RECURSIVE DirectTally(_, _)
DirectTally(view, b) ==
    IF view = <<>> THEN <<0, 0>>
    ELSE LET v == Head(view)
             rest == DirectTally(Tail(view), b)
             mine == IF ni.blocks[v].layer > ni.blocks[b].layer
                     THEN VoteOn(v, b) ELSE <<0, 0>>
         IN  <<mine[1] + rest[1], mine[2] + rest[2]>>

ViewOf(p) ==
    forBlockInView(Machine(ni, Support, Against, Abstain),
                   Get(ni.tPattern, p, <<>>), 0).visited

C10_TallyIsDirectTally ==
    last.err = "ok" =>
        \A k \in 1..Len(last.tallied) :
            LET e == last.tallied[k]
                view == ViewOf(e.p)
            IN  \A n \in 1..Len(view) :
                    ni.blocks[view[n]].layer >= e.base =>
                        (IF view[n] \in DOMAIN e.tally THEN e.tally[view[n]]
                         ELSE <<0, 0>>) = DirectTally(view, view[n])

\* ---- C11: getId gives the same 32-bit id to a list of block ids and to
\* every permutation of that list.
Rearranged(q) ==
    {r \in Slices(Len(q)) :
        /\ Len(r) = Len(q)
        /\ \A x \in 1..MaxBlockId :
              Cardinality({k \in 1..Len(q) : q[k] = x})
                  = Cardinality({k \in 1..Len(r) : r[k] = x})}

C11_PatternIdOrderFree ==
    hash.at = "returned" => \A r \in Rearranged(hash.bids) : getId(r) = hash.id

\* the digest of three distinct ids given out of order
C11_Witness ==
    /\ hash.at = "returned"
    /\ Len(hash.bids) = 3
    /\ hash.bids[1] > hash.bids[2] /\ hash.bids[2] > hash.bids[3]

\* ---- C12: at most one Dial to the remote key is in flight at any time (and
\* every caller that registered as waiting returns).
Dialing == {c \in Callers : pool.dial[c].pc = "dialing"}

C12_OneDialInFlight == Cardinality(Dialing) <= 1

\* ---- C13: when Shutdown has returned, every dial goroutine started by
\* GetConnection has completed and no GetConnection caller is still blocked.
C13_ShutdownWaitsForDials ==
    pool.shut = "returned" =>
        /\ \A c \in Callers : pool.dial[c].pc \in {"none", "finished"}
        /\ \A c \in Callers : pool.caller[c].pc \in {"idle", "returned"}

\* ---- C14: concurrent Eligible calls with the same instance id all return,
\* and the server has then received exactly one validatemap request.
C14_EligibleReturnsAfterOneRequest ==
    <>(/\ \A c \in Askers : oracle.call[c].pc = "returned"
       /\ oracle.requests = 1)

\* ---- C15: on well-formed input (every vote edge and view edge names an
\* inserted block, layers fed in order) UpdateTables runs to completion: it
\* never dereferences a missing effective pattern or writes into a tally
\* table that was never created.
EdgesKnown(b) ==
    /\ \A k \in 1..Len(b.VoteEdges) : b.VoteEdges[k] # MissingId
    /\ \A k \in 1..Len(b.ViewEdges) : b.ViewEdges[k] # MissingId

WellFormed ==
    /\ \A id \in DOMAIN ni.blocks : EdgesKnown(ni.blocks[id])
    /\ \A k \in 1..Len(last.B) : EdgesKnown(last.B[k])

C15_RunsToCompletion == WellFormed => last.err = "ok"

\* ---- C16: a processed block has one explicit voting pattern recorded for
\* each layer its vote edges target, equal to (layer, patternId of its vote
\* ids in that layer).
Now == Machine(ni, Support, Against, Abstain)

C16_PatternPerVotedLayer ==
    \A id \in DOMAIN ni.blocks :
        LET b == ni.blocks[id]
        IN  \A l \in VotedLayers(Now, b.VoteEdges) :
                /\ l \in DOMAIN b.BlockVotes
                /\ b.BlockVotes[l] = Pattern(getId(Group(Now, b.VoteEdges, l)), l)

\* ---- C17: recording the explicit vote of a block on layer j keeps the
\* tExplicit[j] entries of all other blocks: after a completed call the
\* entries that existed before are still there, and every block of the new
\* layer with an explicit vote on a scanned layer j has its entry.
Scanned(i) == {j \in 1..MaxLayer : ScanStart(Now, i) <= j /\ j < i}

C17_ExplicitVotesKept ==
    [][last'.err = "ok" =>
          /\ \A j \in DOMAIN ni.tExplicit : \A b \in DOMAIN ni.tExplicit[j] :
                /\ Has2(ni'.tExplicit, j, b)
                /\ ni'.tExplicit[j][b] = ni.tExplicit[j][b]
          /\ \A k \in 1..Len(last'.B) : \A j \in Scanned(last'.i) :
                j \in DOMAIN ni'.blocks[last'.B[k].id].BlockVotes =>
                    Has2(ni'.tExplicit, j, last'.B[k].id)]_vars

\* ---- C18: a call increases tSupport[p] by exactly the number of blocks of
\* the new layer that support p on a scanned layer: by their explicit pattern
\* for that layer, otherwise by tPatSupport[tEffective[b]][j].
Supported(n, n1, id, j) ==
    LET block == n1.blocks[id]
        eff == Get(n1.tEffective, id, NilPattern)
    IN  IF j \in DOMAIN block.BlockVotes THEN block.BlockVotes[j]
        ELSE IF eff # NilPattern THEN Get2(n.tPatSupport, eff, j, NilPattern)
        ELSE NilPattern

C18_SupportCountsBlocks ==
    [][last'.err = "ok" =>
          \A p \in DOMAIN ni'.tSupport :
              ni'.tSupport[p] - Get(ni.tSupport, p, 0)
                  = Cardinality({k \in 1..Len(last'.B) :
                                   /\ p.layer \in Scanned(last'.i)
                                   /\ Supported(ni, ni', last'.B[k].id, p.layer) = p})]_vars

\* ---- C19: findMinimalGoodLayer returns the smallest layer whose tGood
\* entry was set during the call, and pBase.Layer when none was set.
RECURSIVE LowestWrite(_)
LowestWrite(writes) ==
    IF Len(writes) = 1 THEN Head(writes).p.layer
    ELSE Min2(Head(writes).p.layer, LowestWrite(Tail(writes)))

C19_ReturnsLowestGoodLayer ==
    [][(last'.err = "ok" /\ last'.i > 0) =>
          last'.minGood = IF last'.goodWrites = <<>> THEN ni.pBase.layer
                          ELSE LowestWrite(last'.goodWrites)]_vars

\* ---- C20: tPatSupport[p][m] is recorded only for a layer m in which every
\* block got a Support or Against verdict from p.
C20_PatSupportOnlyWhenDecided ==
    \A p \in DOMAIN ni.tPatSupport : \A m \in DOMAIN ni.tPatSupport[p] :
        \A k \in 1..Len(ni.layerBlocks[m]) :
            Verdict(p, ni.layerBlocks[m][k]) \in {"Support", "Against"}

\* ---- C21: for any seed list and cutoff layer, forBlockInView hands each
\* block reachable from the seeds (descending only from blocks above the
\* cutoff) to the visitor exactly once, and the per-layer counter is the
\* number of distinct visited blocks of the layer; also for a seed list that
\* repeats an id or holds a seed reachable from another seed.
SeedLists ==
    {<<a>> : a \in DOMAIN ni.blocks}
        \cup {<<a, b>> : a \in DOMAIN ni.blocks, b \in DOMAIN ni.blocks}

ChildrenOf(S, layer) ==
    UNION {{ni.blocks[a].ViewEdges[k] : k \in 1..Len(ni.blocks[a].ViewEdges)}
           : a \in {x \in S : ni.blocks[x].layer > layer}}

RECURSIVE ReachableFrom(_, _)
ReachableFrom(S, layer) ==
    LET more == S \cup (ChildrenOf(S, layer) \cap DOMAIN ni.blocks)
    IN  IF more = S THEN S ELSE ReachableFrom(more, layer)

Visits(visited, a) == Cardinality({k \in 1..Len(visited) : visited[k] = a})

C21_VisitsEachBlockOnce ==
    \A seeds \in SeedLists : \A layer \in 0..MaxLayer :
        LET walk == forBlockInView(Now, seeds, layer)
            reach == ReachableFrom({seeds[k] : k \in 1..Len(seeds)}, layer)
        IN  ~walk.missing =>
                /\ \A a \in reach : Visits(walk.visited, a) = 1
                /\ \A l \in 0..MaxLayer :
                      layerCounter(Now, walk.visited, l)
                          = Cardinality({a \in reach : ni.blocks[a].layer = l})

\* ---- C22: a block id is listed in tEffectiveToBlocks[p] exactly when
\* tEffective of the block is p; a block without vote edges has no effective
\* pattern and is listed under no pattern.
Listed(p, id) ==
    \E k \in 1..Len(Get(ni.tEffectiveToBlocks, p, <<>>)) :
        ni.tEffectiveToBlocks[p][k] = id

C22_EffectiveListsAgree ==
    \A id \in DOMAIN ni.blocks :
        LET eff == Get(ni.tEffective, id, NilPattern)
        IN  /\ \A p \in (DOMAIN ni.tEffectiveToBlocks \cup {eff}) \ {NilPattern} :
                  Listed(p, id) <=> eff = p
            /\ ~Listed(NilPattern, id)
            /\ ni.blocks[id].VoteEdges = <<>> => eff = NilPattern

C22_Witness ==
    /\ \E id \in DOMAIN ni.blocks :
          /\ ni.blocks[id].VoteEdges # <<>>
          /\ Listed(ni.tEffective[id], id)
          /\ Len(ni.tEffectiveToBlocks[ni.tEffective[id]]) = 2
    /\ \E id \in DOMAIN ni.blocks :
          ni.blocks[id].layer > 0 /\ ni.blocks[id].VoteEdges = <<>>

\* ---- C23: every tPattern entry is canonical: the stored id list is sorted
\* ascending and holds no id twice, also when vote edges name a block twice,
\* and the key's pattern id is the hash of the stored list.
C23_PatternsCanonical ==
    \A p \in DOMAIN ni.tPattern :
        LET ids == ni.tPattern[p]
        IN  /\ \A k \in 1..(Len(ids) - 1) : ids[k] < ids[k + 1]
            /\ p.id = FnvIds(FnvNew32, ids)

\* ---- C24: a connection that arrives while the pool holds one for the peer:
\* the pool keeps the one with the greater session id (the new one on equal
\* ids) and closes the other, and the connection kept is the same when the
\* two arrive in the opposite order, so both peers keep the same one.
Arrived(w, w2) == w.pc = "hnc" /\ w2.pc # "hnc" /\ pool.connections # NoConn

KeptAfter(first, second) ==
    handleNewConnection([pool EXCEPT !.connections = first], Loop,
                        [pool.loop EXCEPT !.conn = second]).connections

Resolved(new) ==
    LET cur == pool.connections
        kept == pool'.connections
    IN  /\ kept \in {cur, new}
        /\ kept.session >= cur.session /\ kept.session >= new.session
        /\ cur.session = new.session => kept = new
        /\ ({cur, new} \ {kept}) \subseteq pool'.closed
        /\ kept = KeptAfter(new, cur)

C24_KeepsGreaterSession ==
    [][/\ Arrived(pool.loop, pool'.loop) => Resolved(pool.loop.conn)
       /\ \A c \in Callers :
             Arrived(pool.dial[c], pool'.dial[c]) => Resolved(pool.dial[c].conn)]_vars

\* ---- C25: every return path of GetConnectionIfExists releases the read
\* lock it took on connMutex: a caller that has returned holds no read lock,
\* so a later writer can still lock connMutex.
C25_ReturnReleasesReadLock ==
    \A c \in Callers : pool.caller[c].pc = "returned" => c \notin pool.readers

\* ---- C26: ProposedSet is non-nil only when a proposal is tracked and
\* IsConflicting is false; once the tracked sender is seen, by OnProposal or
\* OnLateProposal, with a different value set, ProposedSet is nil until
\* OnProposal accepts a proposal of another sender whose role proof is not
\* higher than the tracked one; a proposal of another sender with a higher
\* role proof changes neither the tracked proposal nor the conflict flag.
Replaces(pt, op, msg) ==
    /\ op = "OnProposal"
    /\ pt.proposal # NoMsg
    /\ msg.PubKey # pt.proposal.PubKey
    /\ msg.RoleProof <= pt.proposal.RoleProof

C26_ProposedSetUntilReplaced ==
    [][LET op == tracker'.op
           msg == tracker'.msg
       IN  /\ ~ProposedSet(tracker').nil =>
                 tracker'.proposal # NoMsg /\ ~IsConflicting(tracker')
           /\ (tracker.proposal # NoMsg /\ Equivocates(tracker, msg)) =>
                 ProposedSet(tracker').nil
           /\ (IsConflicting(tracker) /\ ~Replaces(tracker, op, msg)) =>
                 ProposedSet(tracker').nil
           /\ Replaces(tracker, op, msg) =>
                 /\ tracker'.proposal = msg
                 /\ ProposedSet(tracker') = [nil |-> FALSE, values |-> NewSet(msg.Values)]
           /\ (/\ tracker.proposal # NoMsg
               /\ msg.PubKey # tracker.proposal.PubKey
               /\ msg.RoleProof > tracker.proposal.RoleProof) =>
                 /\ tracker'.proposal = tracker.proposal
                 /\ tracker'.isConflicting = tracker.isConflicting]_vars

C26_Witness ==
    /\ tracker.op = "OnLateProposal"
    /\ tracker.proposal # NoMsg
    /\ Equivocates(tracker, tracker.msg)
    /\ tracker.msg.RoleProof >= tracker.proposal.RoleProof
    /\ IsConflicting(tracker)
    /\ ProposedSet(tracker).nil

====
